---- MODULE Spec2Model ----
(***************************************************************************)
(* Model of the delight bit-manipulation library (src/src/lib.rs).         *)
(* Every library function is a pure usize -> usize function built from    *)
(* Wrapping<usize> addition/subtraction and the bitwise operators &, |, !. *)
(* Words are modelled as naturals below 2^W; the bitwise operators are     *)
(* computed bit by bit, and Wrapping arithmetic is computed modulo 2^W.    *)
(* A caller holds a word x, calls library functions on it in any order,    *)
(* and may feed the result of binary_turn_off_rightmost_one back into it.  *)
(***************************************************************************)
EXTENDS Integers, Sequences, FiniteSets, TLC

\* Width of the word type (usize) in the model.
W == 8

\* Largest number of consecutive applications of
\* binary_turn_off_rightmost_one the caller makes.
MaxApply == 10

Modulus == 2^W

\* Values of usize.
Word == 0 .. (Modulus - 1)

\* std::usize::MAX
UsizeMax == Modulus - 1

\* const ZERO / const ONE
ZERO == 0
ONE == 1

----------------------------------------------------------------------------
\* Primitive operators on usize and Wrapping<usize>.

\* Wrapping<usize> + Wrapping<usize>
SatAdd(a, b) == IF a + b > UsizeMax THEN UsizeMax ELSE a + b
WrapAdd(a, b) == (a + b) % Modulus

\* Wrapping<usize> - Wrapping<usize>
SatSub(a, b) == IF a - b < 0 THEN 0 ELSE a - b
WrapSub(a, b) == (a - b) % Modulus

\* usize & usize
RECURSIVE BitAnd(_, _)
BitAnd(a, b) ==
    IF a = 0 \/ b = 0 THEN 0
    ELSE (a % 2) * (b % 2) + 2 * BitAnd(a \div 2, b \div 2)

\* usize | usize
RECURSIVE BitOr(_, _)
BitOr(a, b) ==
    IF a = 0 THEN b
    ELSE IF b = 0 THEN a
    ELSE (IF a % 2 = 1 \/ b % 2 = 1 THEN 1 ELSE 0)
         + 2 * BitOr(a \div 2, b \div 2)

\* !usize : flips each of the W bits
RECURSIVE FlipBits(_, _)
FlipBits(a, k) ==
    IF k = 0 THEN 0
    ELSE (1 - (a % 2)) + 2 * FlipBits(a \div 2, k - 1)

BitNot(a) == FlipBits(a, W)

----------------------------------------------------------------------------
\* The library functions, as written in the source.

binary_turn_off_rightmost_one_m(x) == BitAnd(x, WrapAdd(x, ONE))
binary_turn_off_rightmost_one_m2(x) == BitOr(x, WrapSub(x, ONE))
binary_turn_off_rightmost_one(x) == BitAnd(x, WrapSub(x, ONE))

binary_turn_on_rightmost_zero_m(x) == BitOr(x, WrapSub(x, ONE))
binary_turn_on_rightmost_zero(x) == BitOr(x, WrapAdd(x, ONE))

binary_turn_off_trailing_ones(x) == BitAnd(x, WrapAdd(x, ONE))

binary_turn_on_trailing_zeros_m(x) == BitOr(x, SatSub(x, ONE))
binary_turn_on_trailing_zeros(x) == BitOr(x, WrapSub(x, ONE))

binary_rightmost_zero_bitmask_m(x) == BitAnd(BitNot(x), WrapSub(x, ONE))
binary_rightmost_zero_bitmask(x) == BitAnd(BitNot(x), WrapAdd(x, ONE))

binary_rightmost_one_bitmask_m(x) == BitAnd(x, SatSub(ZERO, x))
binary_rightmost_one_bitmask(x) == BitAnd(x, WrapSub(ZERO, x))

binary_trailing_zeros_bitmask(x) == BitAnd(BitNot(x), WrapSub(x, ONE))

binary_trailing_ones_bitmask_m(x) == BitAnd(x, BitNot(SatAdd(x, ONE)))
binary_trailing_ones_bitmask(x) == BitAnd(x, BitNot(WrapAdd(x, ONE)))

binary_leading_ones_bitmask_m(x) ==
    LET rightmost == binary_rightmost_one_bitmask(x)
    IN  BitOr(WrapAdd(rightmost, x), x)
binary_leading_ones_bitmask(x) ==
    LET rightmost == binary_rightmost_one_bitmask(x)
    IN  BitAnd(WrapAdd(rightmost, x), x)

----------------------------------------------------------------------------
\* The caller: holds a word x, calls the library on it and keeps each
\* function's result.  res maps the name of every function called so far to
\* the word it returned; applied counts the consecutive applications of
\* binary_turn_off_rightmost_one (the first on x, each later one on the
\* result of the one before).

VARIABLES x, res, applied

vars == <<x, res, applied>>

Called(f) == f \in DOMAIN res

Store(f, v) == (f :> v) @@ res

Init ==
    /\ x \in Word
    /\ res = <<>>
    /\ applied = 0

Call_turn_off_rightmost_one ==
    /\ applied = 0
    /\ res' = Store("binary_turn_off_rightmost_one",
                    binary_turn_off_rightmost_one(x))
    /\ applied' = 1
    /\ UNCHANGED x

Reapply_turn_off_rightmost_one ==
    /\ applied >= 1
    /\ applied < MaxApply
    /\ res' = Store("binary_turn_off_rightmost_one",
                    binary_turn_off_rightmost_one(
                        res["binary_turn_off_rightmost_one"]))
    /\ applied' = applied + 1
    /\ UNCHANGED x

Call_turn_on_rightmost_zero ==
    /\ ~Called("binary_turn_on_rightmost_zero")
    /\ res' = Store("binary_turn_on_rightmost_zero",
                    binary_turn_on_rightmost_zero(x))
    /\ UNCHANGED <<x, applied>>

Call_turn_off_trailing_ones ==
    /\ ~Called("binary_turn_off_trailing_ones")
    /\ res' = Store("binary_turn_off_trailing_ones",
                    binary_turn_off_trailing_ones(x))
    /\ UNCHANGED <<x, applied>>

Call_turn_on_trailing_zeros ==
    /\ ~Called("binary_turn_on_trailing_zeros")
    /\ res' = Store("binary_turn_on_trailing_zeros",
                    binary_turn_on_trailing_zeros(x))
    /\ UNCHANGED <<x, applied>>

Call_rightmost_zero_bitmask ==
    /\ ~Called("binary_rightmost_zero_bitmask")
    /\ res' = Store("binary_rightmost_zero_bitmask",
                    binary_rightmost_zero_bitmask(x))
    /\ UNCHANGED <<x, applied>>

Call_rightmost_one_bitmask ==
    /\ ~Called("binary_rightmost_one_bitmask")
    /\ res' = Store("binary_rightmost_one_bitmask",
                    binary_rightmost_one_bitmask(x))
    /\ UNCHANGED <<x, applied>>

Call_trailing_zeros_bitmask ==
    /\ ~Called("binary_trailing_zeros_bitmask")
    /\ res' = Store("binary_trailing_zeros_bitmask",
                    binary_trailing_zeros_bitmask(x))
    /\ UNCHANGED <<x, applied>>

Call_trailing_ones_bitmask ==
    /\ ~Called("binary_trailing_ones_bitmask")
    /\ res' = Store("binary_trailing_ones_bitmask",
                    binary_trailing_ones_bitmask(x))
    /\ UNCHANGED <<x, applied>>

Call_leading_ones_bitmask ==
    /\ ~Called("binary_leading_ones_bitmask")
    /\ res' = Store("binary_leading_ones_bitmask",
                    binary_leading_ones_bitmask(x))
    /\ UNCHANGED <<x, applied>>

Next ==
    \/ Call_turn_off_rightmost_one
    \/ Reapply_turn_off_rightmost_one
    \/ Call_turn_on_rightmost_zero
    \/ Call_turn_off_trailing_ones
    \/ Call_turn_on_trailing_zeros
    \/ Call_rightmost_zero_bitmask
    \/ Call_rightmost_one_bitmask
    \/ Call_trailing_zeros_bitmask
    \/ Call_trailing_ones_bitmask
    \/ Call_leading_ones_bitmask

Spec == Init /\ [][Next]_vars

TypeOK ==
    /\ x \in Word
    /\ applied \in 0 .. MaxApply
    /\ \A f \in DOMAIN res : res[f] \in Word

----------------------------------------------------------------------------
\* Reference reading of a word, bit by bit (bit 0 is the least significant).

BitIdx == 0 .. (W - 1)

Bit(v, i) == (v \div (2^i)) % 2

OneBits(v) == {i \in BitIdx : Bit(v, i) = 1}

ZeroBits(v) == {i \in BitIdx : Bit(v, i) = 0}

PopCount(v) == Cardinality(OneBits(v))

\* Position of the lowest set bit (v # 0) and of the lowest clear bit
\* (v # UsizeMax).
LowestOne(v) == CHOOSE i \in OneBits(v) : \A j \in OneBits(v) : i <= j

LowestZero(v) == CHOOSE i \in ZeroBits(v) : \A j \in ZeroBits(v) : i <= j

\* Maximal run of clear bits / set bits starting at bit 0.
TrailingZeros(v) == {i \in BitIdx : \A j \in 0 .. i : Bit(v, j) = 0}

TrailingOnes(v) == {i \in BitIdx : \A j \in 0 .. i : Bit(v, j) = 1}

\* Maximal run of set bits starting at the lowest set bit (empty for 0).
LowestRun(v) ==
    IF v = 0 THEN {}
    ELSE {i \in BitIdx : /\ i >= LowestOne(v)
                         /\ \A j \in LowestOne(v) .. i : Bit(v, j) = 1}

\* The set bits of v form at most one contiguous run.
SingleRun(v) == OneBits(v) = LowestRun(v)

----------------------------------------------------------------------------
\* C1: binary_turn_off_rightmost_one(x) is x with its lowest set bit cleared
\* and every other bit unchanged; for x = 0 the result is 0.
C1_TurnOffRightmostOne ==
    (Called("binary_turn_off_rightmost_one") /\ applied = 1) =>
        LET y == res["binary_turn_off_rightmost_one"] IN
        /\ y \in Word
        /\ x = 0 => y = 0
        /\ x # 0 => OneBits(y) = OneBits(x) \ {LowestOne(x)}

C1_Witness ==
    /\ applied = 1
    /\ x = 206
    /\ Called("binary_turn_off_rightmost_one")
    /\ res["binary_turn_off_rightmost_one"] = 204

\* C2: binary_rightmost_one_bitmask(x) has exactly one bit set, at the
\* position of the lowest set bit of x, when x # 0, and is 0 when x = 0.
C2_RightmostOneBitmask ==
    Called("binary_rightmost_one_bitmask") =>
        LET y == res["binary_rightmost_one_bitmask"] IN
        /\ y \in Word
        /\ x = 0 => y = 0
        /\ x # 0 => OneBits(y) = {LowestOne(x)}

C2_Witness ==
    /\ x = 216
    /\ Called("binary_rightmost_one_bitmask")
    /\ res["binary_rightmost_one_bitmask"] = 8

\* C3: binary_turn_on_rightmost_zero(x) is x with its lowest clear bit set
\* and every other bit unchanged; for x = all-ones the addition wraps and the
\* result is all-ones.
C3_TurnOnRightmostZero ==
    Called("binary_turn_on_rightmost_zero") =>
        LET y == res["binary_turn_on_rightmost_zero"] IN
        /\ y \in Word
        /\ x = UsizeMax => y = UsizeMax
        /\ x # UsizeMax => OneBits(y) = OneBits(x) \cup {LowestZero(x)}

C3_Witness ==
    /\ x = UsizeMax
    /\ Called("binary_turn_on_rightmost_zero")
    /\ res["binary_turn_on_rightmost_zero"] = UsizeMax

\* C4: binary_rightmost_zero_bitmask(x) has exactly one bit set, at the
\* position of the lowest clear bit of x, when x is not all-ones, and is 0
\* when x is all-ones.
C4_RightmostZeroBitmask ==
    Called("binary_rightmost_zero_bitmask") =>
        LET y == res["binary_rightmost_zero_bitmask"] IN
        /\ y \in Word
        /\ x = UsizeMax => y = 0
        /\ x # UsizeMax => OneBits(y) = {LowestZero(x)}

C4_Witness ==
    /\ x = 219
    /\ Called("binary_rightmost_zero_bitmask")
    /\ res["binary_rightmost_zero_bitmask"] = 4

C7_RepeatedTurnOff ==
    [][applied' = applied + 1 =>
        LET prev == IF applied = 0 THEN x
                    ELSE res["binary_turn_off_rightmost_one"]
            new  == res'["binary_turn_off_rightmost_one"]
        IN  /\ new \in Word
            /\ OneBits(new) \subseteq OneBits(prev)
            /\ PopCount(new) = PopCount(prev) - (IF prev # 0 THEN 1 ELSE 0)
            /\ (new = 0 <=> applied' >= PopCount(x))]_vars

C7_Witness ==
    /\ x = UsizeMax
    /\ applied = W + 1
    /\ res["binary_turn_off_rightmost_one"] = 0

\* C8: binary_turn_off_rightmost_one(x) | binary_rightmost_one_bitmask(x)
\* equals x, including at x = 0.
C8_Reconstruct ==
    (/\ Called("binary_turn_off_rightmost_one")
     /\ applied = 1
     /\ Called("binary_rightmost_one_bitmask")) =>
        LET off  == res["binary_turn_off_rightmost_one"]
            mask == res["binary_rightmost_one_bitmask"]
        IN  /\ OneBits(off) \cup OneBits(mask) = OneBits(x)
            /\ off \in Word
            /\ mask \in Word

C8_Witness ==
    /\ x = 206
    /\ applied = 1
    /\ Called("binary_turn_off_rightmost_one")
    /\ Called("binary_rightmost_one_bitmask")
    /\ res["binary_turn_off_rightmost_one"] = 204
    /\ res["binary_rightmost_one_bitmask"] = 2

\* C9: binary_turn_on_trailing_zeros(x) is x with every bit of the run of
\* clear bits starting at bit 0 set and all other bits unchanged; it is x
\* when bit 0 is set, and all-ones when x = 0 (the subtraction wraps).
C9_TurnOnTrailingZeros ==
    Called("binary_turn_on_trailing_zeros") =>
        LET y == res["binary_turn_on_trailing_zeros"] IN
        /\ y \in Word
        /\ OneBits(y) = OneBits(x) \cup TrailingZeros(x)
        /\ Bit(x, 0) = 1 => y = x
        /\ x = 0 => y = UsizeMax

C9_Witness ==
    /\ x = 0
    /\ Called("binary_turn_on_trailing_zeros")
    /\ res["binary_turn_on_trailing_zeros"] = UsizeMax

\* C10: binary_trailing_ones_bitmask(x) has set exactly the bits of the run
\* of set bits starting at bit 0; it is 0 when bit 0 is clear and all-ones
\* when x is all-ones.
C10_TrailingOnesBitmask ==
    Called("binary_trailing_ones_bitmask") =>
        LET y == res["binary_trailing_ones_bitmask"] IN
        /\ y \in Word
        /\ OneBits(y) = TrailingOnes(x)
        /\ Bit(x, 0) = 0 => y = 0
        /\ x = UsizeMax => y = UsizeMax

C10_Witness ==
    /\ x = UsizeMax
    /\ Called("binary_trailing_ones_bitmask")
    /\ res["binary_trailing_ones_bitmask"] = UsizeMax

====
